---- MODULE Spec2Model ----
(***************************************************************************)
(* ccswitch: the worktree safety check and the rebase propagation engine.  *)
(* The model follows the two commands of package cmd, fanout                *)
(* (fanoutBranches, rebaseWorktree, abortRebaseInWorktree) and rebase       *)
(* (rebaseSession, selectWorktreeForRebase, promptForCommitMessage), and    *)
(* package git (HasUncommittedChanges, GetCommitCountDifference,            *)
(* RebaseManager, CommitManager). session.Manager.CommitAndRebaseSession    *)
(* follows the design document: stage all, commit, then RebaseCommit in the *)
(* worktree onto the current branch.                                        *)
(* The version-control backend is the environment: every backend call      *)
(* draws its exit status and its output from a small set and is recorded   *)
(* in `log`; the lines a command prints are recorded in `report`.          *)
(***************************************************************************)
EXTENDS Integers, Sequences, FiniteSets, TLC

\* ---------------------------------------------------------------- bounds
\* Largest number of entries of the worktree registry.
MaxWorktrees == 3
\* The ahead / behind commit count the backend reports when it is not 0.
MaxCount == 1

VARIABLES
    worktrees,        \* the registry snapshot returned by WorktreeManager.List
    currentDir,       \* os.Getwd()
    pc,               \* position of the running command
    currentBranch,    \* fanoutBranches: currentBranch
    targetWorktrees,  \* fanoutBranches: targetWorktrees
    safeWorktrees,    \* fanoutBranches: safeWorktrees
    unsafeWorktrees,  \* fanoutBranches: unsafeWorktrees (branch names)
    idx,              \* index of the range loop in progress
    successCount,     \* fanoutBranches: successCount
    confirm,          \* fanoutBranches: confirm
    typed,            \* the line typed at the confirmation prompt (<<>> before)
    ret,              \* (success, conflict, err) returned by the rebase unit
    log,              \* every backend call issued so far, with its result
    report,           \* every line printed so far
    rebasing,         \* backend: worktree path -> a rebase is in progress
    rebased,          \* backend: worktree path -> branch was rebased onto the source
    committed,        \* backend: worktree path -> the command added a commit
    command,          \* the command run: "fanout" or "rebase"
    args,             \* rebaseSession: args
    targetWorktree,   \* rebaseSession: targetWorktree (<<>> is nil)
    scanned,          \* selectWorktreeForRebase: what the scanner read (<<>> before)
    commitMessage     \* rebaseSession: commitMessage

vars == <<worktrees, currentDir, pc, currentBranch, targetWorktrees, safeWorktrees,
          unsafeWorktrees, idx, successCount, confirm, typed, ret, log, report,
          rebasing, rebased, committed, command, args, targetWorktree, scanned,
          commitMessage>>

\* What no step changes: the invocation and the registry snapshot.
env == <<worktrees, currentDir, command, args>>

\* The locals of fanoutBranches.
fanoutVars == <<targetWorktrees, safeWorktrees, unsafeWorktrees, idx, successCount,
                confirm, typed>>

\* The locals of rebaseSession.
sessionVars == <<targetWorktree, scanned, commitMessage>>

\* ------------------------------------------------------- string helpers
\* strings.Contains
Contains(s, sub) ==
    \E i \in 1..(Len(s) - Len(sub) + 1) : SubSeq(s, i, i + Len(sub) - 1) = sub

IsSpace(c) == c \in {" ", "\n", "\t", "\r"}

\* strings.TrimSpace
RECURSIVE TrimLeft(_)
TrimLeft(s) ==
    IF s # "" /\ IsSpace(SubSeq(s, 1, 1)) THEN TrimLeft(SubSeq(s, 2, Len(s))) ELSE s

RECURSIVE TrimRight(_)
TrimRight(s) ==
    IF s # "" /\ IsSpace(SubSeq(s, Len(s), Len(s)))
    THEN TrimRight(SubSeq(s, 1, Len(s) - 1)) ELSE s

TrimSpace(s) == TrimRight(TrimLeft(s))

Digits == "0123456789"

IsDigit(c) == \E d \in 1..10 : SubSeq(Digits, d, d) = c

DigitValue(c) == (CHOOSE d \in 1..10 : SubSeq(Digits, d, d) = c) - 1

\* The value of the longest prefix of decimal digits of s, continuing from acc.
RECURSIVE ScanDigits(_, _)
ScanDigits(s, acc) ==
    IF s # "" /\ IsDigit(SubSeq(s, 1, 1))
    THEN ScanDigits(SubSeq(s, 2, Len(s)), 10 * acc + DigitValue(SubSeq(s, 1, 1)))
    ELSE acc

\* fmt.Sscanf(s, "%d", &n) on a variable that holds 0: leading space is skipped,
\* an optional sign and the digits are read; with no digit n keeps its 0.
Sscanf(s) ==
    LET t == TrimLeft(s)
        neg == t # "" /\ SubSeq(t, 1, 1) = "-"
        signed == t # "" /\ SubSeq(t, 1, 1) \in {"-", "+"}
        body == IF signed THEN SubSeq(t, 2, Len(t)) ELSE t
    IN  IF neg THEN 0 - ScanDigits(body, 0) ELSE ScanDigits(body, 0)

\* The decimal numeral of n.
RECURSIVE Numeral(_)
Numeral(n) ==
    IF n < 10 THEN SubSeq(Digits, n + 1, n + 1)
    ELSE Numeral(n \div 10) \o SubSeq(Digits, (n % 10) + 1, (n % 10) + 1)

UpperLetters == "ABCDEFGHIJKLMNOPQRSTUVWXYZ"
LowerLetters == "abcdefghijklmnopqrstuvwxyz"

LowerChar(c) ==
    IF \E i \in 1..26 : SubSeq(UpperLetters, i, i) = c
    THEN LET i == CHOOSE j \in 1..26 : SubSeq(UpperLetters, j, j) = c
         IN  SubSeq(LowerLetters, i, i)
    ELSE c

\* strings.ToLower
RECURSIVE ToLower(_)
ToLower(s) ==
    IF s = "" THEN "" ELSE LowerChar(SubSeq(s, 1, 1)) \o ToLower(SubSeq(s, 2, Len(s)))

\* strings.HasSuffix
HasSuffix(s, suf) == Len(s) >= Len(suf) /\ SubSeq(s, Len(s) - Len(suf) + 1, Len(s)) = suf

\* ------------------------------------------------------------ the registry
\* The path of the i-th worktree of the registry.
PathOf(i) == "/r/w" \o Numeral(i)

\* A directory inside the i-th worktree that is not its root.
SubdirOf(i) == PathOf(i) \o "/src"

\* The branch of the worktree the command runs in: "main", or none (detached).
HostBranches == {"main", ""}

\* The branch of any other worktree: none (detached), the branch of the
\* invoking worktree (a forced second checkout), or a branch of its own.
BranchChoices(i, hostBranch) == {"", hostBranch, "b" \o Numeral(i)}

\* The registries with n entries whose first entry (the main worktree, which the
\* backend lists first) is the invoking worktree.
RegistriesOf(n, hostBranch) ==
    {w \in [1..n -> [Path : {PathOf(i) : i \in 1..n},
                     Branch : UNION {BranchChoices(i, hostBranch) : i \in 1..n}]] :
        \A i \in 1..n :
            /\ w[i].Path = PathOf(i)
            /\ w[i].Branch \in (IF i = 1 THEN {hostBranch} ELSE BranchChoices(i, hostBranch))}

\* `git branch --show-current` in dir: the branch of the worktree holding dir.
HeadBranch(reg, dir) ==
    LET i == CHOOSE j \in 1..Len(reg) : dir \in {PathOf(j), SubdirOf(j)}
    IN  reg[i].Branch

\* ------------------------------------------------------------ the backend
\* One backend call and its result, as recorded in log.
Call(cmd, dir, res) == [cmd |-> cmd, dir |-> dir, ok |-> res.ok, out |-> res.out]

\* `git status --porcelain`: clean, one modified file, or the call fails.
StatusResults ==
    { [ok |-> TRUE, out |-> ""],
      [ok |-> TRUE, out |-> " M file.txt\n"],
      [ok |-> FALSE, out |-> "fatal: not a git repository\n"] }

\* `git rev-list --count base..HEAD` (or HEAD..base): the count on a line of its
\* own, no commit or MaxCount commits, or the call fails. With an empty base
\* the range is HEAD..HEAD, which holds no commit.
RevListResults(base) ==
    { [ok |-> TRUE, out |-> Numeral(n) \o "\n"] : n \in {0, IF base = "" THEN 0 ELSE MaxCount} }
    \cup { [ok |-> FALSE, out |-> "fatal: bad revision\n"] }

\* `git rebase <ref>`: the exit status, the combined output, and whether the
\* backend stopped in the middle of the rebase (leaving it in progress). The
\* output of a stopped rebase names the conflict in the backend's own words or
\* in those of a hook or a translation ("Conflicts").
\* An empty ref names no upstream: the rebase is refused.
RebaseResults(ref) ==
    IF ref = ""
    THEN { [ok |-> FALSE, out |-> "fatal: invalid upstream ''\n", stops |-> FALSE] }
    ELSE { [ok |-> TRUE, out |-> "Successfully rebased and updated refs/heads/b.\n", stops |-> FALSE],
           [ok |-> FALSE, out |-> "CONFLICT (content): Merge conflict in file.txt\n", stops |-> TRUE],
           [ok |-> FALSE, out |-> "error: Failed to merge in the changes.\n", stops |-> TRUE],
           [ok |-> FALSE, out |-> "Automatic merge failed; fix Conflicts and continue\n", stops |-> TRUE],
           [ok |-> FALSE, out |-> "fatal: invalid upstream 'main'\n", stops |-> FALSE] }

\* `git rebase --abort`: succeeds or fails while a rebase is in progress, fails
\* when none is.
AbortResults(inProgress) ==
    IF inProgress
    THEN { [ok |-> TRUE, out |-> ""],
           [ok |-> FALSE, out |-> "error: could not restore HEAD\n"] }
    ELSE { [ok |-> FALSE, out |-> "fatal: No rebase in progress?\n"] }

\* ------------------------------------------------- Repository Inspector
HasUncommittedChanges(st) == st.ok /\ TrimSpace(st.out) # ""

\* The backend calls GetCommitCountDifference issues, given their results.
CommitCountCalls(dir, ah, bh) ==
    <<Call("rev-list-ahead", dir, ah)>>
    \o (IF ah.ok THEN <<Call("rev-list-behind", dir, bh)>> ELSE <<>>)

GetCommitCountDifference(ah, bh) ==
    IF ~ah.ok THEN [diff |-> 0, err |-> TRUE]
    ELSE IF ~bh.ok THEN [diff |-> 0, err |-> TRUE]
    ELSE LET ahead == TrimSpace(ah.out)
             behind == TrimSpace(bh.out)
             aheadCount == IF ahead # "" THEN Sscanf(ahead) ELSE 0
             behindCount == IF behind # "" THEN Sscanf(behind) ELSE 0
         IN  [diff |-> aheadCount - behindCount, err |-> FALSE]

\* ------------------------------------------------------ Safety Evaluator
\* The verdict of one iteration of the safety loop of fanoutBranches.
Evaluate(st, ah, bh) ==
    IF HasUncommittedChanges(st) THEN "UnsafeDirty"
    ELSE LET d == GetCommitCountDifference(ah, bh)
         IN  IF d.err THEN "UnsafeError"
             ELSE IF d.diff > 0 THEN "UnsafeAhead"
             ELSE "Safe"

\* The backend calls of that iteration.
EvaluateCalls(dir, st, ah, bh) ==
    <<Call("status", dir, st)>>
    \o (IF HasUncommittedChanges(st) THEN <<>> ELSE CommitCountCalls(dir, ah, bh))

\* The line the iteration prints.
EvaluateLine(wt, st, ah, bh) ==
    LET v == Evaluate(st, ah, bh)
        d == GetCommitCountDifference(ah, bh)
    IN  [kind |-> v, branch |-> wt.Branch, path |-> wt.Path,
         n |-> IF v = "UnsafeAhead" THEN d.diff ELSE IF v = "Safe" THEN 0 - d.diff ELSE 0]

\* ------------------------------------------------------------ Rebase Unit
Nil == "<nil>"

\* Mutant: every failed rebase is taken for a conflict.
IsConflictOutputAlways(outputStr) == TRUE

\* The conflict test of rebaseWorktree on the output of a failed rebase.
IsConflictOutput(outputStr) ==
    \/ Contains(outputStr, "conflict")
    \/ Contains(outputStr, "CONFLICT")
    \/ Contains(outputStr, "Failed to merge")

\* Mutant: RebaseManager.RebaseCommit looks for the markers in any letter case.
IsConflictOutputRMAnyCase(outputStr) ==
    \/ Contains(ToLower(outputStr), "conflict")
    \/ Contains(ToLower(outputStr), "failed to merge")

\* The conflict test of RebaseManager.RebaseCommit on the output of a failed rebase.
IsConflictOutputRM(outputStr) ==
    \/ Contains(outputStr, "conflict")
    \/ Contains(outputStr, "CONFLICT")
    \/ Contains(outputStr, "Failed to merge")

\* What a rebase unit returns.
RetSuccess == [success |-> TRUE, conflict |-> FALSE, err |-> Nil]
RetConflict == [success |-> FALSE, conflict |-> TRUE, err |-> "rebase conflict detected, auto-aborted"]
RetFailed(outputStr) ==
    [success |-> FALSE, conflict |-> FALSE,
     err |-> "rebase failed: exit status 1, output: " \o outputStr]
NoRet == [success |-> FALSE, conflict |-> FALSE, err |-> Nil]

Line(kind, branch, n) == [kind |-> kind, branch |-> branch, path |-> "", n |-> n]

\* ------------------------------------------------------------ invocation
\* strings.HasPrefix
HasPrefix(s, pre) == Len(s) >= Len(pre) /\ SubSeq(s, 1, Len(pre)) = pre

\* The arguments `ccswitch rebase` is run with: none, a worktree path, the tail
\* of the last worktree's path, a branch of the registry (the empty name when a
\* worktree is detached), or a name the registry does not hold.
ArgChoices(reg) ==
    {<<>>, <<"nope">>, <<"/w" \o Numeral(Len(reg))>>}
    \cup {<<reg[i].Path>> : i \in 1..Len(reg)}
    \cup {<<reg[i].Branch>> : i \in 1..Len(reg)}

Init ==
    /\ \E n \in 1..MaxWorktrees, hostBranch \in HostBranches :
        /\ worktrees \in RegistriesOf(n, hostBranch)
        /\ currentDir \in {PathOf(1), SubdirOf(1)}
    /\ \/ command = "fanout" /\ args = <<>>
       \/ command = "rebase" /\ args \in ArgChoices(worktrees)
    /\ targetWorktree = <<>>
    /\ scanned = <<>>
    /\ commitMessage = ""
    /\ committed = [p \in {worktrees[i].Path : i \in 1..Len(worktrees)} |-> FALSE]
    /\ pc = "start"
    /\ currentBranch = ""
    /\ targetWorktrees = <<>>
    /\ safeWorktrees = <<>>
    /\ unsafeWorktrees = <<>>
    /\ idx = 0
    /\ successCount = 0
    /\ confirm = ""
    /\ typed = <<>>
    /\ ret = NoRet
    /\ log = <<>>
    /\ report = <<>>
    /\ rebasing = [p \in {worktrees[i].Path : i \in 1..Len(worktrees)} |-> FALSE]
    /\ rebased = [p \in {worktrees[i].Path : i \in 1..Len(worktrees)} |-> FALSE]

\* Mutant: the filter without the test of the branch against the source branch.
IsFanoutTargetAnyBranch(wt, dir, branch) ==
    wt.Path # dir /\ wt.Branch # ""

\* The filter of fanoutBranches over the registry.
IsFanoutTarget(wt, dir, branch) ==
    wt.Path # dir /\ wt.Branch # "" /\ wt.Branch # branch

\* fanoutBranches up to the safety loop: the working directory, the current
\* branch, the registry and the filter; each of the three lookups can fail.
FanoutStart ==
    /\ command = "fanout"
    /\ pc = "start"
    /\ \E failure \in {"none", "getwd", "branch", "list"} :
        LET branchCall == Call("branch", currentDir,
                               [ok |-> failure # "branch",
                                out |-> IF failure = "branch" THEN "fatal: not a git repository\n"
                                        ELSE HeadBranch(worktrees, currentDir) \o "\n"])
            listCall == Call("worktree-list", currentDir, [ok |-> failure # "list", out |-> ""])
            branch == TrimSpace(branchCall.out)
            targets == SelectSeq(worktrees, LAMBDA wt : IsFanoutTarget(wt, currentDir, branch))
        IN  CASE failure = "getwd" ->
                    /\ report' = Append(report, Line("getwd-failed", "", 0))
                    /\ pc' = "done"
                    /\ UNCHANGED <<log, currentBranch, targetWorktrees, idx>>
              [] failure = "branch" ->
                    /\ log' = Append(log, branchCall)
                    /\ report' = Append(report, Line("branch-failed", "", 0))
                    /\ pc' = "done"
                    /\ UNCHANGED <<currentBranch, targetWorktrees, idx>>
              [] failure = "list" ->
                    /\ log' = log \o <<branchCall, listCall>>
                    /\ currentBranch' = branch
                    /\ report' = Append(report, Line("list-failed", "", 0))
                    /\ pc' = "done"
                    /\ UNCHANGED <<targetWorktrees, idx>>
              [] OTHER ->
                    /\ log' = log \o <<branchCall, listCall>>
                    /\ currentBranch' = branch
                    /\ targetWorktrees' = targets
                    /\ IF Len(targets) = 0
                       THEN /\ report' = Append(report, Line("no-targets", "", 0))
                            /\ pc' = "done"
                            /\ idx' = idx
                       ELSE /\ report' = Append(report, Line("plan", branch, Len(targets)))
                            /\ pc' = "plan"
                            /\ idx' = 1
    /\ UNCHANGED <<env, sessionVars, committed, safeWorktrees, unsafeWorktrees, successCount,
                   confirm, typed, ret, rebasing, rebased>>

\* Mutant: the safety loop ends at the first unsafe worktree.
FanoutEvaluateStopsAtUnsafe ==
    /\ pc = "plan"
    /\ idx <= Len(targetWorktrees)
    /\ LET wt == targetWorktrees[idx] IN
       \E st \in StatusResults, ah \in RevListResults(currentBranch),
          bh \in RevListResults(currentBranch) :
          /\ log' = log \o EvaluateCalls(wt.Path, st, ah, bh)
          /\ report' = Append(report, EvaluateLine(wt, st, ah, bh))
          /\ IF Evaluate(st, ah, bh) = "Safe"
             THEN /\ safeWorktrees' = Append(safeWorktrees, wt)
                  /\ idx' = idx + 1
                  /\ UNCHANGED unsafeWorktrees
             ELSE /\ unsafeWorktrees' = Append(unsafeWorktrees, wt.Branch)
                  /\ idx' = Len(targetWorktrees) + 1
                  /\ UNCHANGED safeWorktrees
    /\ UNCHANGED <<env, sessionVars, committed, pc, currentBranch, targetWorktrees, successCount,
                   confirm, typed, ret, rebasing, rebased>>

\* One iteration of the safety loop.
FanoutEvaluate ==
    /\ pc = "plan"
    /\ idx <= Len(targetWorktrees)
    /\ LET wt == targetWorktrees[idx] IN
       \E st \in StatusResults, ah \in RevListResults(currentBranch),
          bh \in RevListResults(currentBranch) :
          /\ log' = log \o EvaluateCalls(wt.Path, st, ah, bh)
          /\ report' = Append(report, EvaluateLine(wt, st, ah, bh))
          /\ IF Evaluate(st, ah, bh) = "Safe"
             THEN /\ safeWorktrees' = Append(safeWorktrees, wt)
                  /\ UNCHANGED unsafeWorktrees
             ELSE /\ unsafeWorktrees' = Append(unsafeWorktrees, wt.Branch)
                  /\ UNCHANGED safeWorktrees
    /\ idx' = idx + 1
    /\ UNCHANGED <<env, sessionVars, committed, pc, currentBranch, targetWorktrees, successCount,
                   confirm, typed, ret, rebasing, rebased>>

\* Mutant: a gate that never refuses.
GateRefusesNever(unsafe) == FALSE

\* The gate after the safety loop: refuse when any worktree is unsafe.
GateRefuses(unsafe) == Len(unsafe) > 0

FanoutGate ==
    /\ pc = "plan"
    /\ idx > Len(targetWorktrees)
    /\ IF GateRefuses(unsafeWorktrees)
       THEN /\ report' = Append(report, Line("cannot-fanout", "", Len(unsafeWorktrees)))
            /\ pc' = "done"
       ELSE IF Len(safeWorktrees) = 0
       THEN /\ report' = Append(report, Line("nothing-to-fanout", "", 0))
            /\ pc' = "done"
       ELSE /\ report' = Append(report, Line("ready", currentBranch, Len(safeWorktrees)))
            /\ pc' = "confirm"
    /\ UNCHANGED <<env, sessionVars, committed, currentBranch, targetWorktrees, safeWorktrees,
                   unsafeWorktrees, idx, successCount, confirm, typed, ret, log, rebasing, rebased>>

\* The lines the user may type at the prompt; "" is the end of input.
ConfirmInputs == {"yes\n", "YES\n", "yes please\n", "no\n", "\n", ""}

\* The blanks fmt.Scanln skips before a word: spaces, not the end of the line.
RECURSIVE SkipBlanks(_)
SkipBlanks(s) ==
    IF s # "" /\ SubSeq(s, 1, 1) \in {" ", "\t", "\r"} THEN SkipBlanks(SubSeq(s, 2, Len(s))) ELSE s

\* The longest prefix of s that holds no space.
RECURSIVE Word(_)
Word(s) ==
    IF s = "" \/ IsSpace(SubSeq(s, 1, 1)) THEN ""
    ELSE SubSeq(s, 1, 1) \o Word(SubSeq(s, 2, Len(s)))

\* fmt.Scanln(&confirm) on a variable that holds "": the first word of the line
\* is stored; what follows it on the line makes Scanln return an error, which
\* fanoutBranches does not look at. An empty line or the end of input stores
\* nothing.
Scanln(line) == Word(SkipBlanks(line))

\* The confirmation prompt of fanoutBranches.
FanoutConfirm ==
    /\ pc = "confirm"
    /\ \E line \in ConfirmInputs :
        /\ typed' = <<line>>
        /\ confirm' = Scanln(line)
        /\ IF ToLower(Scanln(line)) # "yes"
           THEN /\ report' = Append(report, Line("cancelled", "", 0))
                /\ pc' = "done"
                /\ idx' = idx
           ELSE /\ report' = Append(report, Line("progress", "", 0))
                /\ pc' = "exec"
                /\ idx' = 1
    /\ UNCHANGED <<env, sessionVars, committed, currentBranch, targetWorktrees, safeWorktrees,
                   unsafeWorktrees, successCount, ret, log, rebasing, rebased>>

\* Mutant: the execution loop walks the safe worktrees from the last to the first.
FanoutRebaseReversed ==
    /\ pc = "exec"
    /\ idx <= Len(safeWorktrees)
    /\ LET wt == safeWorktrees[Len(safeWorktrees) + 1 - idx] IN
       \E res \in RebaseResults(currentBranch) :
          /\ log' = Append(log, Call("rebase", wt.Path, res))
          /\ report' = Append(report, Line("rebasing", wt.Branch, 0))
          /\ rebasing' = [rebasing EXCEPT ![wt.Path] = res.stops]
          /\ rebased' = [rebased EXCEPT ![wt.Path] = res.ok]
          /\ IF res.ok
             THEN ret' = RetSuccess /\ pc' = "handle"
             ELSE IF IsConflictOutput(res.out)
             THEN ret' = NoRet /\ pc' = "abort"
             ELSE ret' = RetFailed(res.out) /\ pc' = "handle"
    /\ UNCHANGED <<env, sessionVars, committed, currentBranch, targetWorktrees, safeWorktrees,
                   unsafeWorktrees, idx, successCount, confirm, typed>>

\* rebaseWorktree: the rebase call and the classification of its result. A
\* conflict goes on to the abort; anything else returns to the loop.
FanoutRebase ==
    /\ pc = "exec"
    /\ idx <= Len(safeWorktrees)
    /\ LET wt == safeWorktrees[idx] IN
       \E res \in RebaseResults(currentBranch) :
          /\ log' = Append(log, Call("rebase", wt.Path, res))
          /\ report' = Append(report, Line("rebasing", wt.Branch, 0))
          /\ rebasing' = [rebasing EXCEPT ![wt.Path] = res.stops]
          /\ rebased' = [rebased EXCEPT ![wt.Path] = res.ok]
          /\ IF res.ok
             THEN ret' = RetSuccess /\ pc' = "handle"
             ELSE IF IsConflictOutput(res.out)
             THEN ret' = NoRet /\ pc' = "abort"
             ELSE ret' = RetFailed(res.out) /\ pc' = "handle"
    /\ UNCHANGED <<env, sessionVars, committed, currentBranch, targetWorktrees, safeWorktrees,
                   unsafeWorktrees, idx, successCount, confirm, typed>>

\* Mutant: rebaseWorktree returns the conflict without calling the abort.
FanoutAbortSkipped ==
    /\ pc = "abort"
    /\ ret' = RetConflict
    /\ pc' = "handle"
    /\ UNCHANGED <<env, sessionVars, committed, currentBranch, targetWorktrees, safeWorktrees,
                   unsafeWorktrees, idx, successCount, confirm, typed, report, rebased, log, rebasing>>

\* abortRebaseInWorktree, then the conflict return of rebaseWorktree: the
\* result of the abort is dropped.
FanoutAbort ==
    /\ pc = "abort"
    /\ LET wt == safeWorktrees[idx] IN
       \E res \in AbortResults(rebasing[wt.Path]) :
          /\ log' = Append(log, Call("rebase-abort", wt.Path, res))
          /\ rebasing' = [rebasing EXCEPT ![wt.Path] = IF res.ok THEN FALSE ELSE @]
    /\ ret' = RetConflict
    /\ pc' = "handle"
    /\ UNCHANGED <<env, sessionVars, committed, currentBranch, targetWorktrees, safeWorktrees,
                   unsafeWorktrees, idx, successCount, confirm, typed, report, rebased>>

\* Mutant: a successful rebase is printed but not counted.
FanoutHandleUncounted ==
    /\ pc = "handle"
    /\ LET wt == safeWorktrees[idx] IN
       IF ret.err # Nil
       THEN /\ report' = report \o
                    (IF ret.conflict
                     THEN <<Line("conflict", wt.Branch, 0), Line("stopped-conflict", wt.Branch, 0)>>
                     ELSE <<Line("failed", wt.Branch, 0), Line("stopped", wt.Branch, 0)>>)
            /\ pc' = "done"
            /\ UNCHANGED <<idx, successCount>>
       ELSE /\ report' = Append(report, Line("success", wt.Branch, 0))
            /\ successCount' = successCount
            /\ idx' = idx + 1
            /\ pc' = "exec"
    /\ UNCHANGED <<env, sessionVars, committed, currentBranch, targetWorktrees, safeWorktrees,
                   unsafeWorktrees, confirm, typed, ret, log, rebasing, rebased>>

\* Mutant: the execution loop tries the same worktree again after an error.
FanoutHandleRetries ==
    /\ pc = "handle"
    /\ LET wt == safeWorktrees[idx] IN
       IF ret.err # Nil
       THEN /\ report' = Append(report, Line(IF ret.conflict THEN "conflict" ELSE "failed",
                                             wt.Branch, 0))
            /\ pc' = "exec"
            /\ UNCHANGED <<idx, successCount>>
       ELSE /\ report' = Append(report, Line("success", wt.Branch, 0))
            /\ successCount' = successCount + 1
            /\ idx' = idx + 1
            /\ pc' = "exec"
    /\ UNCHANGED <<env, sessionVars, committed, currentBranch, targetWorktrees, safeWorktrees,
                   unsafeWorktrees, confirm, typed, ret, log, rebasing, rebased>>

\* Mutant: the execution loop goes on to the next worktree after an error.
FanoutHandleContinues ==
    /\ pc = "handle"
    /\ LET wt == safeWorktrees[idx] IN
       IF ret.err # Nil
       THEN /\ report' = report \o
                    (IF ret.conflict
                     THEN <<Line("conflict", wt.Branch, 0), Line("stopped-conflict", wt.Branch, 0)>>
                     ELSE <<Line("failed", wt.Branch, 0), Line("stopped", wt.Branch, 0)>>)
            /\ idx' = idx + 1
            /\ pc' = "exec"
            /\ UNCHANGED successCount
       ELSE /\ report' = Append(report, Line("success", wt.Branch, 0))
            /\ successCount' = successCount + 1
            /\ idx' = idx + 1
            /\ pc' = "exec"
    /\ UNCHANGED <<env, sessionVars, committed, currentBranch, targetWorktrees, safeWorktrees,
                   unsafeWorktrees, confirm, typed, ret, log, rebasing, rebased>>

\* Mutant: a successful rebase is counted but its success line is not printed.
FanoutHandleSilent ==
    /\ pc = "handle"
    /\ LET wt == safeWorktrees[idx] IN
       IF ret.err # Nil
       THEN /\ report' = report \o
                    (IF ret.conflict
                     THEN <<Line("conflict", wt.Branch, 0), Line("stopped-conflict", wt.Branch, 0)>>
                     ELSE <<Line("failed", wt.Branch, 0), Line("stopped", wt.Branch, 0)>>)
            /\ pc' = "done"
            /\ UNCHANGED <<idx, successCount>>
       ELSE /\ report' = report
            /\ successCount' = successCount + 1
            /\ idx' = idx + 1
            /\ pc' = "exec"
    /\ UNCHANGED <<env, sessionVars, committed, currentBranch, targetWorktrees, safeWorktrees,
                   unsafeWorktrees, confirm, typed, ret, log, rebasing, rebased>>

\* The rest of one iteration of the execution loop, on what rebaseWorktree
\* returned: stop on an error, count a success.
FanoutHandle ==
    /\ pc = "handle"
    /\ LET wt == safeWorktrees[idx] IN
       IF ret.err # Nil
       THEN /\ report' = report \o
                    (IF ret.conflict
                     THEN <<Line("conflict", wt.Branch, 0), Line("stopped-conflict", wt.Branch, 0)>>
                     ELSE <<Line("failed", wt.Branch, 0), Line("stopped", wt.Branch, 0)>>)
            /\ pc' = "done"
            /\ UNCHANGED <<idx, successCount>>
       ELSE IF ~ret.success
       THEN /\ report' = Append(report, Line("rebase-failed", wt.Branch, 0))
            /\ pc' = "done"
            /\ UNCHANGED <<idx, successCount>>
       ELSE /\ report' = Append(report, Line("success", wt.Branch, 0))
            /\ successCount' = successCount + 1
            /\ idx' = idx + 1
            /\ pc' = "exec"
    /\ UNCHANGED <<env, sessionVars, committed, currentBranch, targetWorktrees, safeWorktrees,
                   unsafeWorktrees, confirm, typed, ret, log, rebasing, rebased>>

\* The summary after the execution loop.
FanoutComplete ==
    /\ pc = "exec"
    /\ idx > Len(safeWorktrees)
    /\ report' = Append(report, Line("complete", currentBranch, successCount))
    /\ pc' = "done"
    /\ UNCHANGED <<env, sessionVars, committed, currentBranch, targetWorktrees, safeWorktrees,
                   unsafeWorktrees, idx, successCount, confirm, typed, ret, log, rebasing, rebased>>

\* ------------------------------------------------- single-target rebase
\* The test of rebaseSession for an argument that is a path.
IsPathArg(target) ==
    HasPrefix(target, "/") \/ HasPrefix(target, ".") \/ HasPrefix(target, "~")

\* The worktree rebaseSession finds for its argument: the first of the registry
\* that matches by path (or path suffix) or by branch name; <<>> when none does.
FindTarget(reg, target) ==
    LET matches == {i \in 1..Len(reg) :
                        IF IsPathArg(target)
                        THEN reg[i].Path = target \/ HasSuffix(reg[i].Path, target)
                        ELSE reg[i].Branch = target}
    IN  IF matches = {} THEN <<>>
        ELSE <<reg[CHOOSE i \in matches : \A j \in matches : i <= j]>>

\* The worktrees selectWorktreeForRebase offers.
AvailableWorktrees(reg, dir) ==
    SelectSeq(reg, LAMBDA wt : wt.Path # dir /\ wt.Branch # "")

\* What the backend answers while the selector draws its list. The answers
\* only choose the icon of a line.
DisplayAnswers ==
    { [st |-> [ok |-> TRUE, out |-> " M file.txt\n"],
       ah |-> [ok |-> TRUE, out |-> "0\n"], bh |-> [ok |-> TRUE, out |-> "0\n"]],
      [st |-> [ok |-> TRUE, out |-> ""],
       ah |-> [ok |-> TRUE, out |-> "0\n"], bh |-> [ok |-> TRUE, out |-> "0\n"]] }

\* The backend calls of the selector's list, from its i-th line on.
RECURSIVE DisplayCalls(_, _, _)
DisplayCalls(avail, answers, i) ==
    IF i > Len(avail) THEN <<>>
    ELSE EvaluateCalls(avail[i].Path, answers[i].st, answers[i].ah, answers[i].bh)
         \o DisplayCalls(avail, answers, i + 1)

\* The lines of the selector's list.
DisplayLine(wt, a) ==
    LET d == GetCommitCountDifference(a.ah, a.bh)
    IN  [kind |-> IF HasUncommittedChanges(a.st) THEN "item-dirty"
                  ELSE IF ~d.err /\ d.diff > 0 THEN "item-ahead"
                  ELSE "item-other",
         branch |-> wt.Branch, path |-> wt.Path, n |-> 0]

\* What the scanner reads at a prompt: nothing (end of input) or one line.
ScanResults ==
    { [ok |-> FALSE, text |-> ""],
      [ok |-> TRUE, text |-> ""],
      [ok |-> TRUE, text |-> "q"],
      [ok |-> TRUE, text |-> "1"],
      [ok |-> TRUE, text |-> " 2 "],
      [ok |-> TRUE, text |-> "9"],
      [ok |-> TRUE, text |-> "x"] }

\* fmt.Sscanf(s, "%d", &n) reports an error when it reads no digit.
SscanfFails(s) ==
    LET t == TrimLeft(s)
        body == IF t # "" /\ SubSeq(t, 1, 1) \in {"-", "+"} THEN SubSeq(t, 2, Len(t)) ELSE t
    IN  body = "" \/ ~IsDigit(SubSeq(body, 1, 1))

\* Mutant: an empty line picks the first worktree of the list.
SelectedWorktreeDefaultsToFirst(avail, scan) ==
    LET input == TrimSpace(scan.text)
        choice == Sscanf(input)
    IN  IF ~scan.ok THEN <<>>
        ELSE IF input = "q" THEN <<>>
        ELSE IF input = "" THEN <<avail[1]>>
        ELSE IF SscanfFails(input) \/ choice < 1 \/ choice > Len(avail) THEN <<>>
        ELSE <<avail[choice]>>

\* The choice selectWorktreeForRebase returns for a non-empty list: <<>> is nil.
SelectedWorktree(avail, scan) ==
    LET input == TrimSpace(scan.text)
        choice == Sscanf(input)
    IN  IF ~scan.ok THEN <<>>
        ELSE IF input = "q" \/ input = "" THEN <<>>
        ELSE IF SscanfFails(input) \/ choice < 1 \/ choice > Len(avail) THEN <<>>
        ELSE <<avail[choice]>>

\* Mutant: the selection ends without the self-rebase test.
SelectionOutcomeUntested(target, branch) ==
    IF target = <<>> THEN "none" ELSE "chosen"

\* The end of the selection in rebaseSession: no worktree, the self-rebase
\* refusal, or on to the commit message.
SelectionOutcome(target, branch) ==
    IF target = <<>> THEN "none"
    ELSE IF target[1].Branch = branch THEN "self"
    ELSE "chosen"

\* rebaseSession up to the commit message: the working directory, the current
\* branch, the registry, the selection of the worktree and the self-rebase test.
RebaseSelect ==
    /\ command = "rebase"
    /\ pc = "start"
    /\ \E failure \in {"none", "getwd", "branch", "list"} :
        LET branchCall == Call("branch", currentDir,
                               [ok |-> failure # "branch",
                                out |-> IF failure = "branch" THEN "fatal: not a git repository\n"
                                        ELSE HeadBranch(worktrees, currentDir) \o "\n"])
            listCall == Call("worktree-list", currentDir, [ok |-> failure # "list", out |-> ""])
            branch == TrimSpace(branchCall.out)
            avail == AvailableWorktrees(worktrees, currentDir)
        IN  CASE failure = "getwd" ->
                    /\ report' = Append(report, Line("getwd-failed", "", 0))
                    /\ pc' = "done"
                    /\ UNCHANGED <<log, currentBranch, targetWorktree, scanned>>
              [] failure = "branch" ->
                    /\ log' = Append(log, branchCall)
                    /\ report' = Append(report, Line("branch-failed", "", 0))
                    /\ pc' = "done"
                    /\ UNCHANGED <<currentBranch, targetWorktree, scanned>>
              [] failure = "list" ->
                    /\ log' = log \o <<branchCall, listCall>>
                    /\ currentBranch' = branch
                    /\ report' = Append(report, Line("list-failed", "", 0))
                    /\ pc' = "done"
                    /\ UNCHANGED <<targetWorktree, scanned>>
              [] OTHER ->
                    /\ currentBranch' = branch
                    /\ IF Len(worktrees) = 0
                       THEN /\ log' = log \o <<branchCall, listCall>>
                            /\ report' = Append(report, Line("no-worktrees", "", 0))
                            /\ targetWorktree' = <<>>
                            /\ scanned' = scanned
                            /\ pc' = "done"
                       ELSE IF Len(args) > 0
                       THEN LET target == FindTarget(worktrees, args[1])
                                outcome == SelectionOutcome(target, branch)
                            IN  /\ log' = log \o <<branchCall, listCall>>
                                /\ targetWorktree' = target
                                /\ scanned' = scanned
                                /\ report' = Append(report,
                                        CASE outcome = "none" -> Line("not-found", args[1], 0)
                                          [] outcome = "self" -> Line("self-rebase", branch, 0)
                                          [] OTHER -> Line("rebasing-onto", target[1].Branch, 0))
                                /\ pc' = IF outcome = "chosen" THEN "prompt" ELSE "done"
                       ELSE IF Len(avail) = 0
                       THEN /\ log' = log \o <<branchCall, listCall>>
                            /\ report' = Append(report, Line("none-available", "", 0))
                            /\ targetWorktree' = <<>>
                            /\ scanned' = scanned
                            /\ pc' = "done"
                       ELSE \E answers \in [1..Len(avail) -> DisplayAnswers], scan \in ScanResults :
                            LET target == SelectedWorktree(avail, scan)
                                outcome == SelectionOutcome(target, branch)
                                invalid == scan.ok /\ TrimSpace(scan.text) \notin {"q", ""}
                                           /\ target = <<>>
                            IN  /\ log' = log \o <<branchCall, listCall, branchCall>>
                                              \o DisplayCalls(avail, answers, 1)
                                /\ targetWorktree' = target
                                /\ scanned' = <<scan>>
                                /\ report' = report
                                        \o [i \in 1..Len(avail) |-> DisplayLine(avail[i], answers[i])]
                                        \o (CASE outcome = "self" -> <<Line("self-rebase", branch, 0)>>
                                              [] outcome = "chosen" ->
                                                    <<Line("rebasing-onto", target[1].Branch, 0)>>
                                              [] OTHER -> IF invalid
                                                          THEN <<Line("invalid-selection", "", 0)>>
                                                          ELSE <<>>)
                                /\ pc' = IF outcome = "chosen" THEN "prompt" ELSE "done"
    /\ UNCHANGED <<env, fanoutVars, commitMessage, committed, ret, rebasing, rebased>>

\* Mutant: promptForCommitMessage returns the line as read, untrimmed.
RebasePromptUntrimmed ==
    /\ pc = "prompt"
    /\ \E scan \in { [ok |-> FALSE, text |-> ""], [ok |-> TRUE, text |-> ""],
                     [ok |-> TRUE, text |-> "  \n"], [ok |-> TRUE, text |-> " fix parser \n"] } :
        LET message == IF scan.ok THEN scan.text ELSE ""
        IN  /\ commitMessage' = message
            /\ IF message = ""
               THEN /\ report' = Append(report, Line("empty-message", "", 0))
                    /\ pc' = "done"
               ELSE /\ report' = Append(report, Line("committing", "", 0))
                    /\ pc' = "stage"
    /\ UNCHANGED <<env, fanoutVars, targetWorktree, scanned, currentBranch, committed, ret,
                   log, rebasing, rebased>>

\* promptForCommitMessage and the test of its result.
RebasePrompt ==
    /\ pc = "prompt"
    /\ \E scan \in { [ok |-> FALSE, text |-> ""], [ok |-> TRUE, text |-> ""],
                     [ok |-> TRUE, text |-> "  \n"], [ok |-> TRUE, text |-> " fix parser \n"] } :
        LET message == IF scan.ok THEN TrimSpace(scan.text) ELSE ""
        IN  /\ commitMessage' = message
            /\ IF message = ""
               THEN /\ report' = Append(report, Line("empty-message", "", 0))
                    /\ pc' = "done"
               ELSE /\ report' = Append(report, Line("committing", "", 0))
                    /\ pc' = "stage"
    /\ UNCHANGED <<env, fanoutVars, targetWorktree, scanned, currentBranch, committed, ret,
                   log, rebasing, rebased>>

\* CommitAndRebaseSession, first step: CommitManager.StageAll on the worktree.
SessionStageAll ==
    /\ pc = "stage"
    /\ \E ok \in BOOLEAN :
        /\ log' = Append(log, Call("add", targetWorktree[1].Path,
                                   [ok |-> ok, out |-> IF ok THEN "" ELSE "fatal: unable to write index\n"]))
        /\ IF ok
           THEN pc' = "commit" /\ report' = report
           ELSE /\ pc' = "done"
                /\ report' = Append(report, Line("failed-stage", targetWorktree[1].Branch, 0))
    /\ UNCHANGED <<env, fanoutVars, sessionVars, currentBranch, committed, ret, rebasing, rebased>>

\* Mutant: CommitAndRebaseSession goes on to the rebase when the commit failed.
SessionCommitIgnoresFailure ==
    /\ pc = "commit"
    /\ \E ok \in BOOLEAN :
        /\ log' = Append(log, Call("commit", targetWorktree[1].Path,
                                   [ok |-> ok,
                                    out |-> IF ok THEN "1 file changed\n"
                                            ELSE "nothing to commit, working tree clean\n"]))
        /\ committed' = [committed EXCEPT ![targetWorktree[1].Path] = ok]
        /\ pc' = "rebase"
        /\ report' = report
    /\ UNCHANGED <<env, fanoutVars, sessionVars, currentBranch, ret, rebasing, rebased>>

\* CommitAndRebaseSession, second step: CommitManager.Commit with the message.
SessionCommit ==
    /\ pc = "commit"
    /\ \E ok \in BOOLEAN :
        /\ log' = Append(log, Call("commit", targetWorktree[1].Path,
                                   [ok |-> ok,
                                    out |-> IF ok THEN "1 file changed\n"
                                            ELSE "nothing to commit, working tree clean\n"]))
        /\ committed' = [committed EXCEPT ![targetWorktree[1].Path] = ok]
        /\ IF ok
           THEN pc' = "rebase" /\ report' = report
           ELSE /\ pc' = "done"
                /\ report' = Append(report, Line("failed-commit", targetWorktree[1].Branch, 0))
    /\ UNCHANGED <<env, fanoutVars, sessionVars, currentBranch, ret, rebasing, rebased>>

\* RebaseManager.RebaseCommit: the rebase call and the classification of its
\* result. A conflict goes on to AbortRebase; anything else returns.
RebaseCommit ==
    /\ pc = "rebase"
    /\ LET wt == targetWorktree[1] IN
       \E res \in RebaseResults(currentBranch) :
          /\ log' = Append(log, Call("rebase", wt.Path, res))
          /\ rebasing' = [rebasing EXCEPT ![wt.Path] = res.stops]
          /\ rebased' = [rebased EXCEPT ![wt.Path] = res.ok]
          /\ IF res.ok
             THEN ret' = RetSuccess /\ pc' = "finish"
             ELSE IF IsConflictOutputRM(res.out)
             THEN ret' = NoRet /\ pc' = "rm-abort"
             ELSE ret' = RetFailed(res.out) /\ pc' = "finish"
    /\ UNCHANGED <<env, fanoutVars, sessionVars, currentBranch, committed, report>>

\* RebaseManager.AbortRebase, then the conflict return of RebaseCommit: the
\* error AbortRebase returns is dropped.
RebaseCommitAbort ==
    /\ pc = "rm-abort"
    /\ LET wt == targetWorktree[1] IN
       \E res \in AbortResults(rebasing[wt.Path]) :
          /\ log' = Append(log, Call("rebase-abort", wt.Path, res))
          /\ rebasing' = [rebasing EXCEPT ![wt.Path] = IF res.ok THEN FALSE ELSE @]
    /\ ret' = RetConflict
    /\ pc' = "finish"
    /\ UNCHANGED <<env, fanoutVars, sessionVars, currentBranch, committed, report, rebased>>

\* The end of rebaseSession, on what CommitAndRebaseSession returned.
SessionFinish ==
    /\ pc = "finish"
    /\ LET wt == targetWorktree[1] IN
       report' = IF ret.err # Nil
                 THEN Append(report, Line(IF ret.conflict THEN "failed-conflict" ELSE "failed-rebase",
                                          wt.Branch, 0))
                 ELSE report \o <<Line("rebased", wt.Branch, 0), Line("preserved", wt.Branch, 0)>>
    /\ pc' = "done"
    /\ UNCHANGED <<env, fanoutVars, sessionVars, currentBranch, committed, ret, log,
                   rebasing, rebased>>

Next ==
    \/ FanoutStart
    \/ FanoutEvaluate
    \/ FanoutGate
    \/ FanoutConfirm
    \/ FanoutRebase
    \/ FanoutAbort
    \/ FanoutHandle
    \/ FanoutComplete
    \/ RebaseSelect
    \/ RebasePrompt
    \/ SessionStageAll
    \/ SessionCommit
    \/ RebaseCommit
    \/ RebaseCommitAbort
    \/ SessionFinish

Spec == Init /\ [][Next]_vars

\* Every backend call and every read of the terminal returns: a command that
\* can take a step takes one.
LiveSpec == Spec /\ WF_vars(Next)

\* ------------------------------------------------- reading log and report
\* The positions of log holding a call of one of the commands cmds.
CallsOf(cmds) == {i \in 1..Len(log) : log[i].cmd \in cmds}

\* The commands that change a worktree.
MutatingCmds == {"add", "commit", "rebase", "rebase-abort"}

\* The count a successful `rev-list --count` call answered.
CountOutput(n) == Numeral(n) \o "\n"

\* The backend answered that the worktree at dir has uncommitted changes.
ObservedDirty(dir) ==
    \E i \in CallsOf({"status"}) :
        log[i].dir = dir /\ log[i].ok /\ log[i].out \notin {"", "\n"}

\* The backend answered an ahead count greater than 0 for the worktree at dir.
ObservedAhead(dir) ==
    \E i \in CallsOf({"rev-list-ahead"}) :
        log[i].dir = dir /\ log[i].ok /\ log[i].out # CountOutput(0)

\* The lines of report of one of the kinds.
LinesOf(kinds) == {i \in 1..Len(report) : report[i].kind \in kinds}

UnsafeVerdicts == {"UnsafeDirty", "UnsafeError", "UnsafeAhead"}
Verdicts == UnsafeVerdicts \cup {"Safe"}

\* ------------------------------------------------------------------ C1
\* C1: whenever some candidate is dirty or ahead of the source branch
\* (aheadCount > 0, whatever its behindCount), fanout issues no commit, rebase
\* or rebase-abort to any worktree.
C1_NoMutationWhenDirtyOrAhead ==
    (\E i \in 1..Len(targetWorktrees) :
        ObservedDirty(targetWorktrees[i].Path) \/ ObservedAhead(targetWorktrees[i].Path))
    => CallsOf(MutatingCmds) = {}

\* ------------------------------------------------------------------ C2
\* C2: the first rebase of an invocation is issued only after every candidate
\* has been evaluated, no candidate got an unsafe verdict and the safe set is
\* not empty; with a mixed plan no rebase is issued to the safe worktrees.
C2_GateAllOrNothing ==
    /\ \A r \in CallsOf({"rebase"}) :
        command = "fanout" =>
        /\ \A t \in 1..Len(targetWorktrees) :
              \E j \in CallsOf({"status"}) : j < r /\ log[j].dir = targetWorktrees[t].Path
        /\ Cardinality(LinesOf(Verdicts)) = Len(targetWorktrees)
        /\ LinesOf(UnsafeVerdicts) = {}
        /\ Len(unsafeWorktrees) = 0
        /\ Len(safeWorktrees) > 0
    /\ (LinesOf(UnsafeVerdicts) # {} => CallsOf(MutatingCmds) = {})

\* A mixed plan (one candidate safe, one unsafe) was refused.
C2_Witness ==
    /\ pc = "done"
    /\ LinesOf({"Safe"}) # {}
    /\ LinesOf(UnsafeVerdicts) # {}
    /\ LinesOf({"cannot-fanout"}) # {}

\* ------------------------------------------------------------------ C3
\* The position in safeWorktrees of the worktree at dir.
SafeIndex(dir) == CHOOSE k \in 1..Len(safeWorktrees) : safeWorktrees[k].Path = dir

\* C3: when the rebase of the k-th safe worktree is the first to fail, the loop
\* stops: nothing is issued after it but the abort of that same worktree, no
\* command reaches worktrees k+1..N, and worktrees 1..k-1 stay rebased.
C3_StopAtFirstFailure ==
    \A i \in CallsOf({"rebase"}) :
        (command = "fanout" /\ ~log[i].ok) =>
            /\ \A j \in (i + 1)..Len(log) :
                  j = i + 1 /\ log[j].cmd = "rebase-abort" /\ log[j].dir = log[i].dir
            /\ \A m \in (SafeIndex(log[i].dir) + 1)..Len(safeWorktrees) :
                  /\ \A j \in CallsOf(MutatingCmds) : log[j].dir # safeWorktrees[m].Path
                  /\ ~rebased[safeWorktrees[m].Path]
                  /\ ~rebasing[safeWorktrees[m].Path]
            /\ \A m \in 1..(SafeIndex(log[i].dir) - 1) :
                  /\ rebased[safeWorktrees[m].Path]
                  /\ Cardinality({j \in CallsOf(MutatingCmds) :
                                    log[j].dir = safeWorktrees[m].Path}) = 1

\* The rebase of the first of two safe worktrees failed and the command ended.
C3_Witness ==
    /\ pc = "done"
    /\ Len(safeWorktrees) = 2
    /\ \E i \in CallsOf({"rebase"}) : ~log[i].ok /\ log[i].dir = safeWorktrees[1].Path
    /\ ~rebased[safeWorktrees[2].Path]

\* ------------------------------------------------------------------ C4
\* The output of a rebase carries one of the conflict markers.
HasConflictMarker(out) ==
    \/ Contains(out, "conflict")
    \/ Contains(out, "CONFLICT")
    \/ Contains(out, "Failed to merge")

\* The safe worktrees whose rebase failed with a conflict marker.
Conflicted ==
    {k \in 1..Len(safeWorktrees) :
        \E i \in CallsOf({"rebase"}) :
            log[i].dir = safeWorktrees[k].Path /\ ~log[i].ok /\ HasConflictMarker(log[i].out)}

\* The report of a fanout stopped by the conflict of the k-th safe worktree:
\* k-1 successes, one conflict (of worktree k), N-k worktrees not attempted.
ReportShows(k) ==
    /\ Cardinality(LinesOf({"success"})) = k - 1
    /\ \A m \in 1..(k - 1) :
          \E l \in LinesOf({"success"}) : report[l].branch = safeWorktrees[m].Branch
    /\ Cardinality(LinesOf({"conflict"})) = 1
    /\ \A l \in LinesOf({"conflict"}) : report[l].branch = safeWorktrees[k].Branch
    /\ Len(safeWorktrees) - Cardinality(LinesOf({"rebasing"})) = Len(safeWorktrees) - k
    /\ LinesOf({"complete", "failed"}) = {}

\* The abort issued to the worktree at dir succeeded.
AbortSucceeded(dir) ==
    \E j \in CallsOf({"rebase-abort"}) : log[j].dir = dir /\ log[j].ok

C5_AbortOnceBeforeConflict ==
    /\ \A i \in CallsOf({"rebase"}) :
          (~log[i].ok /\ HasConflictMarker(log[i].out)) =>
              IF i = Len(log)
              THEN pc \in {"abort", "rm-abort"} /\ ~ret.conflict
              ELSE /\ log[i + 1].cmd = "rebase-abort"
                   /\ log[i + 1].dir = log[i].dir
                   /\ Cardinality({j \in CallsOf({"rebase-abort"}) :
                                     log[j].dir = log[i].dir}) = 1
    /\ ret.conflict =>
          /\ Len(log) >= 2
          /\ log[Len(log)].cmd = "rebase-abort"
          /\ log[Len(log) - 1].cmd = "rebase"
          /\ ~log[Len(log) - 1].ok
          /\ log[Len(log) - 1].dir = log[Len(log)].dir

\* The rebase unit returned Conflict for output carrying "CONFLICT (content)".
C5_Witness ==
    /\ ret.conflict
    /\ \E i \in CallsOf({"rebase"}) :
          Contains(log[i].out, "CONFLICT (content): Merge conflict in file.txt")

\* ------------------------------------------------------------------ C6
\* The status call of the worktree at dir reported no uncommitted change.
ObservedClean(dir) ==
    \E i \in CallsOf({"status"}) : log[i].dir = dir /\ log[i].ok /\ log[i].out \in {"", "\n"}

\* Both directional range queries of the worktree at dir succeeded.
DivergenceSucceeded(dir) ==
    /\ \E i \in CallsOf({"rev-list-ahead"}) : log[i].dir = dir /\ log[i].ok
    /\ \E i \in CallsOf({"rev-list-behind"}) : log[i].dir = dir /\ log[i].ok

\* C6: a clean worktree whose divergence query succeeds is UnsafeAhead whenever
\* its aheadCount is greater than 0, also when its behindCount is positive; a
\* worktree classified Safe has aheadCount = 0.
C6_AheadIsUnsafe ==
    \A l \in LinesOf(Verdicts) :
        /\ (ObservedClean(report[l].path) /\ DivergenceSucceeded(report[l].path)
            /\ ObservedAhead(report[l].path)) => report[l].kind = "UnsafeAhead"
        /\ report[l].kind = "Safe" => ~ObservedAhead(report[l].path)

\* ------------------------------------------------------------------ C7
\* The dirtiness query of the worktree at dir failed.
StatusFailed(dir) == \E i \in CallsOf({"status"}) : log[i].dir = dir /\ ~log[i].ok

\* C7: when the dirtiness query of a worktree fails, the worktree is not
\* reported dirty, and it is never classified Safe.
C7_FailedStatusNeverSafe ==
    \A l \in LinesOf(Verdicts) :
        StatusFailed(report[l].path) =>
            /\ report[l].kind # "UnsafeDirty"
            /\ report[l].kind # "Safe"
            /\ \A k \in 1..Len(safeWorktrees) : safeWorktrees[k].Path # report[l].path

\* ------------------------------------------------------------------ C8
\* One of the range queries of the worktree at dir failed.
DivergenceFailed(dir) ==
    \E i \in CallsOf({"rev-list-ahead", "rev-list-behind"}) : log[i].dir = dir /\ ~log[i].ok

\* The verdict the ordered checks give the worktree at dir.
OrderedVerdict(dir) ==
    IF ObservedDirty(dir) THEN "UnsafeDirty"
    ELSE IF DivergenceFailed(dir) THEN "UnsafeError"
    ELSE IF ObservedAhead(dir) THEN "UnsafeAhead"
    ELSE "Safe"

\* C8: every evaluated worktree gets exactly one verdict, the first that
\* applies of dirty, divergence failed, ahead, safe; the divergence query is not
\* issued for a dirty worktree; no worktree is in both sets or twice in one.
C8_OrderedSingleVerdict ==
    /\ \A l \in LinesOf(Verdicts) :
          /\ report[l].kind = OrderedVerdict(report[l].path)
          /\ \A m \in LinesOf(Verdicts) : report[m].path = report[l].path => m = l
          /\ report[l].kind = "UnsafeDirty" =>
                \A i \in CallsOf({"rev-list-ahead", "rev-list-behind"}) :
                    log[i].dir # report[l].path
    /\ \A i, j \in 1..Len(safeWorktrees) : safeWorktrees[i] = safeWorktrees[j] => i = j
    /\ \A i, j \in 1..Len(unsafeWorktrees) : unsafeWorktrees[i] = unsafeWorktrees[j] => i = j
    /\ \A i \in 1..Len(safeWorktrees), j \in 1..Len(unsafeWorktrees) :
          safeWorktrees[i].Branch # unsafeWorktrees[j]

\* ------------------------------------------------------------------ C9
\* The candidates evaluated so far.
EvaluatedCount ==
    IF pc = "start" THEN 0
    ELSE IF pc = "plan" THEN idx - 1
    ELSE Len(targetWorktrees)

\* C9: the planning phase evaluates every candidate exactly once, in discovery
\* order and whatever the earlier verdicts; each unsafe verdict marks only its
\* own worktree, and every unsafe worktree is printed and listed.
C9_EveryCandidateEvaluatedOnce ==
    LET statusCalls == SelectSeq(log, LAMBDA e : e.cmd = "status")
        verdictLines == SelectSeq(report, LAMBDA l : l.kind \in Verdicts)
        unsafeLines == SelectSeq(report, LAMBDA l : l.kind \in UnsafeVerdicts)
        safeLines == SelectSeq(report, LAMBDA l : l.kind = "Safe")
    IN  command = "fanout" =>
        /\ Len(statusCalls) = EvaluatedCount
        /\ Len(verdictLines) = EvaluatedCount
        /\ \A i \in 1..EvaluatedCount :
              /\ statusCalls[i].dir = targetWorktrees[i].Path
              /\ verdictLines[i].path = targetWorktrees[i].Path
        /\ unsafeWorktrees = [i \in 1..Len(unsafeLines) |-> unsafeLines[i].branch]
        /\ safeWorktrees = [i \in 1..Len(safeLines) |->
                               [Path |-> safeLines[i].path, Branch |-> safeLines[i].branch]]

\* The first candidate's inspection failed and the second was still evaluated.
C9_Witness ==
    /\ pc = "done"
    /\ Len(targetWorktrees) = 2
    /\ \E l \in LinesOf({"UnsafeError"}) : report[l].path = targetWorktrees[1].Path
    /\ \E l \in LinesOf(Verdicts) : report[l].path = targetWorktrees[2].Path
    /\ LinesOf({"cannot-fanout"}) # {}

\* ----------------------------------------------------------------- C10
\* The abort issued after the last failed rebase failed.
LastAbortFailed ==
    /\ Len(log) >= 1
    /\ log[Len(log)].cmd = "rebase-abort"
    /\ ~log[Len(log)].ok

\* C10: when the abort after a conflict fails, the outcome is still Conflict
\* and the failure of the abort reaches the caller: what the rebase unit (of
\* either command) returns differs from what it returns when the abort succeeds.
C10_AbortFailureSurfaced ==
    (pc \in {"handle", "finish"} /\ LastAbortFailed) =>
        /\ ret.conflict
        /\ ~ret.success
        /\ ret # RetConflict

\* ----------------------------------------------------------------- C11
\* The literal markers of a merge conflict.
ConflictMarkers == {"conflict", "CONFLICT", "Failed to merge"}

\* The output carries one of the markers, letter case ignored.
HasConflictMarkerAnyCase(out) ==
    \E m \in ConflictMarkers : Contains(ToLower(out), ToLower(m))

\* The rebase unit has just classified the rebase call that ends the log.
JustClassified == Len(log) >= 1 /\ log[Len(log)].cmd = "rebase"

\* The classification was Conflict: the unit goes on to the abort.
ClassifiedConflict == pc \in {"abort", "rm-abort"}

\* C11: a failed rebase is classified Conflict exactly when its output carries
\* one of the markers "conflict", "CONFLICT", "Failed to merge" compared without
\* regard to letter case; a successful rebase is never classified Conflict.
C11_ConflictIffMarkerAnyCase ==
    JustClassified =>
        LET call == log[Len(log)]
        IN  /\ ~call.ok => (ClassifiedConflict <=> HasConflictMarkerAnyCase(call.out))
            /\ call.ok => ~ClassifiedConflict /\ ~ret.conflict

\* ----------------------------------------------------------------- C12
\* The mutating calls issued so far, in order.
Mutations == SelectSeq(log, LAMBDA e : e.cmd \in MutatingCmds)

\* The order of the mutations of the single-target command.
SessionOrder == <<"add", "commit", "rebase", "rebase-abort">>

\* C12: the single-target command stages, commits, then rebases, all in the
\* selected worktree; the commit is issued only after a successful staging and
\* the rebase only after a successful commit; after a failed rebase nothing is
\* issued but the abort of the rebase, and the worktree keeps its new commit.
C12_StageCommitRebaseInOrder ==
    command = "rebase" =>
        /\ Len(Mutations) <= Len(SessionOrder)
        /\ \A i \in 1..Len(Mutations) :
              /\ Mutations[i].cmd = SessionOrder[i]
              /\ Mutations[i].dir = targetWorktree[1].Path
              /\ i \in {2, 3} => Mutations[i - 1].ok
              /\ i = 4 => ~Mutations[3].ok
        /\ Len(Mutations) >= 3 => committed[targetWorktree[1].Path]

\* The rebase of the committed worktree conflicted and was aborted; the commit
\* is still there when the command ends.
C12_Witness ==
    /\ command = "rebase"
    /\ pc = "done"
    /\ Len(Mutations) = 4
    /\ ret.conflict
    /\ committed[targetWorktree[1].Path]

\* ----------------------------------------------------------------- C13
\* The read-only queries of the backend.
QueryCmds == {"branch", "worktree-list", "status", "rev-list-ahead", "rev-list-behind"}

\* The command refused an empty commit message.
EmptyMessageRejected == LinesOf({"empty-message"}) # {}

\* C13 as claimed: an empty commit message is rejected before any backend call:
\* no stage, commit or rebase, and no backend query before the rejection.
C13_RejectedBeforeAnyCall ==
    EmptyMessageRejected => log = <<>>

\* C13 as amended: an empty commit message (empty after trimming, or no input)
\* is rejected with no stage, commit or rebase issued, before or after; the only
\* backend calls of the invocation are the read-only queries that select the
\* worktree, all issued before the message is read. Conversely a stage, commit
\* or rebase is only issued with a message that is not empty and is trimmed.
C13_RejectedBeforeAnyMutation ==
    /\ EmptyMessageRejected =>
          /\ pc = "done"
          /\ commitMessage = ""
          /\ CallsOf(MutatingCmds) = {}
          /\ \A i \in 1..Len(log) : log[i].cmd \in QueryCmds
          /\ report[Len(report)].kind = "empty-message"
    /\ (command = "rebase" /\ CallsOf(MutatingCmds) # {}) =>
          /\ commitMessage # ""
          /\ TrimSpace(commitMessage) = commitMessage

\* A worktree was picked from the interactive list and the message was refused.
C13_Witness ==
    /\ EmptyMessageRejected
    /\ args = <<>>
    /\ CallsOf({"status"}) # {}
    /\ targetWorktree # <<>>

\* ----------------------------------------------------------------- C14
\* The command refused to rebase a branch onto itself.
SelfRebaseRejected == LinesOf({"self-rebase"}) # {}

\* The worktree selected has the branch the command was invoked on.
SelectedOwnBranch ==
    /\ command = "rebase"
    /\ targetWorktree # <<>>
    /\ targetWorktree[1].Branch = currentBranch

\* C14: a selected worktree whose branch equals the current branch is refused
\* with the self-rebase error, however it was selected, and the command ends
\* there: no stage, commit or rebase is ever issued and no backend call follows
\* the selection; a stage, commit or rebase is only issued to a worktree of
\* another branch.
C14_SelfRebaseRejected ==
    /\ SelectedOwnBranch <=> SelfRebaseRejected
    /\ SelfRebaseRejected =>
          /\ pc = "done"
          /\ report[Len(report)].kind = "self-rebase"
          /\ CallsOf(MutatingCmds) = {}
          /\ \A i \in 1..Len(log) : log[i].cmd \in QueryCmds
    /\ (command = "rebase" /\ CallsOf(MutatingCmds) # {}) =>
          targetWorktree[1].Branch # currentBranch

\* A second worktree holding the current branch was picked from the
\* interactive list and refused.
C14_Witness ==
    /\ SelfRebaseRejected
    /\ args = <<>>
    /\ currentBranch = "main"
    /\ targetWorktree[1].Path # PathOf(1)

\* ----------------------------------------------------------------- C15
\* The branch the registry gives the worktree at dir.
BranchAt(dir) ==
    LET i == CHOOSE j \in 1..Len(worktrees) : worktrees[j].Path = dir
    IN  worktrees[i].Branch

\* Fanout is past its filter and at work on its candidates.
FanoutRunning == command = "fanout" /\ pc \in {"plan", "confirm", "exec", "abort", "handle"}

\* C15: a worktree with an empty branch (detached) is never a rebase target or
\* source: no stage, commit or rebase is issued to such a worktree by either
\* command, however it was selected, no rebase is issued onto an empty source
\* branch, and fanout does not run with an empty source branch.
C15_DetachedNeverTargetOrSource ==
    /\ \A i \in CallsOf({"add", "commit", "rebase"}) :
          /\ BranchAt(log[i].dir) # ""
          /\ log[i].cmd = "rebase" => currentBranch # ""
    /\ FanoutRunning => currentBranch # ""

\* ----------------------------------------------------------------- C16
\* The user left the interactive list without choosing: end of input, an empty
\* line, or q.
SelectionCancelled ==
    /\ scanned # <<>>
    /\ \/ ~scanned[1].ok
       \/ TrimSpace(scanned[1].text) \in {"q", ""}

\* The lines printed as errors by the single-target command.
ErrorKinds ==
    {"getwd-failed", "branch-failed", "list-failed", "not-found", "invalid-selection",
     "self-rebase", "empty-message", "failed-stage", "failed-commit", "failed-conflict",
     "failed-rebase"}

\* C16: when the user cancels the interactive selection (q, an empty line or
\* end of input) the command ends as a no-op: no worktree is selected, no
\* stage, commit or rebase is issued and no error is printed.
C16_CancelIsNoOp ==
    SelectionCancelled =>
        /\ pc = "done"
        /\ targetWorktree = <<>>
        /\ CallsOf(MutatingCmds) = {}
        /\ LinesOf(ErrorKinds) = {}

\* The user answered the list with an empty line.
C16_Witness ==
    /\ SelectionCancelled
    /\ scanned[1].ok
    /\ scanned[1].text = ""
    /\ pc = "done"
    /\ LinesOf({"item-dirty", "item-other"}) # {}

\* ----------------------------------------------------------------- C17
\* The rebase calls that failed with no conflict marker in their output.
PlainFailures ==
    {i \in CallsOf({"rebase"}) : ~log[i].ok /\ ~HasConflictMarker(log[i].out)}

\* C17: a failed rebase whose output carries no conflict marker is returned as
\* OtherFailure (neither success nor conflict) with an error that carries the
\* backend's error and the captured output, and no abort is issued: no backend
\* call follows it, the worktree stays as the backend left it.
C17_OtherFailureNoAbort ==
    \A i \in PlainFailures :
        /\ i = Len(log)
        /\ \A j \in CallsOf({"rebase-abort"}) : log[j].dir # log[i].dir
        /\ pc \in {"handle", "finish", "done"}
        /\ ~ret.success
        /\ ~ret.conflict
        /\ ret.err # Nil
        /\ Contains(ret.err, "exit status 1")
        /\ Contains(ret.err, log[i].out)

\* The backend refused the rebase ("invalid upstream") and the unit returned.
C17_Witness ==
    /\ pc \in {"handle", "finish"}
    /\ PlainFailures # {}
    /\ ret = RetFailed("fatal: invalid upstream 'main'\n")

\* ----------------------------------------------------------------- C18
\* The position in the registry of the worktree at dir.
RegistryIndex(dir) == CHOOSE j \in 1..Len(worktrees) : worktrees[j].Path = dir

\* The rebase calls issued so far, in order.
Rebases == SelectSeq(log, LAMBDA e : e.cmd = "rebase")

\* The paths of all worktrees.
Paths == {worktrees[j].Path : j \in 1..Len(worktrees)}

\* The worktree the execution loop is at work on.
ExecTarget == safeWorktrees[idx].Path

\* In every state of a fanout: the safe set is in discovery order; the k-th
\* rebase goes to the k-th safe worktree; the calls to one worktree all come
\* before the calls to the next; while the unit is at work on worktree idx no
\* call has gone past it; at most one worktree has a rebase in progress; and a
\* worktree's state differs from its initial state only if a call went to it.
SerialOrdered ==
    command = "fanout" =>
        /\ \A a, b \in 1..Len(safeWorktrees) :
              a < b => RegistryIndex(safeWorktrees[a].Path) < RegistryIndex(safeWorktrees[b].Path)
        /\ Len(Rebases) <= Len(safeWorktrees)
        /\ \A k \in 1..Len(Rebases) : Rebases[k].dir = safeWorktrees[k].Path
        /\ \A a, b \in 1..Len(Mutations) :
              a < b => SafeIndex(Mutations[a].dir) <= SafeIndex(Mutations[b].dir)
        /\ pc \in {"exec", "abort", "handle"} =>
              \A a \in 1..Len(Mutations) : SafeIndex(Mutations[a].dir) <= idx
        /\ pc \in {"abort", "handle"} => Mutations[Len(Mutations)].dir = ExecTarget
        /\ Cardinality({p \in Paths : rebasing[p]}) <= 1
        /\ \A p \in Paths :
              (rebasing[p] \/ rebased[p] \/ committed[p]) =>
                  \E a \in 1..Len(Mutations) : Mutations[a].dir = p

\* A step of the execution loop changes the state of no worktree but its target.
OnlyTargetChanges ==
    (command = "fanout" /\ pc \in {"exec", "abort"} /\ idx <= Len(safeWorktrees)) =>
        \A p \in Paths \ {ExecTarget} :
            /\ rebasing'[p] = rebasing[p]
            /\ rebased'[p] = rebased[p]
            /\ committed'[p] = committed[p]

\* C18: the execution phase of fanout is strictly serial and ordered: rebases
\* are issued in discovery order, the rebase and the abort of worktree i have
\* returned before any command goes to worktree i+1, two worktrees are never
\* mutated at once, and a step on worktree i leaves the others unchanged.
C18_SerialOrderedExecution ==
    []SerialOrdered /\ [][OnlyTargetChanges]_vars

\* Two safe worktrees were rebased one after the other.
C18_Witness ==
    /\ command = "fanout"
    /\ pc = "done"
    /\ Len(safeWorktrees) = 2
    /\ Len(Rebases) = 2
    /\ rebased[safeWorktrees[1].Path]
    /\ rebased[safeWorktrees[2].Path]

\* ----------------------------------------------------------------- C19
\* No worktree is rebased twice, and the execution loop has made at most one
\* iteration per candidate.
NoRetry ==
    command = "fanout" =>
        /\ Len(Rebases) <= Len(targetWorktrees)
        /\ \A a, b \in 1..Len(Rebases) : Rebases[a].dir = Rebases[b].dir => a = b
        /\ pc \in {"exec", "abort", "handle"} => Len(Rebases) \in {idx - 1, idx}

\* An iteration of the execution loop ends by moving to the next worktree or by
\* stopping the command.
IterationAdvancesOrStops ==
    (command = "fanout" /\ pc = "handle") =>
        \/ pc' = "exec" /\ idx' = idx + 1
        \/ pc' = "done" /\ idx' = idx

\* C19: when every backend call returns, a fanout invocation terminates; the
\* execution loop makes at most one iteration per candidate, each iteration
\* moves on to the next worktree or stops the command, and no worktree is
\* retried.
C19_FanoutTerminates ==
    /\ []NoRetry
    /\ [][IterationAdvancesOrStops]_vars
    /\ (command = "fanout") ~> (pc = "done")

\* A fanout over two safe worktrees ran to its summary.
C19_Witness ==
    /\ command = "fanout"
    /\ pc = "done"
    /\ LinesOf({"complete"}) # {}
    /\ successCount = 2

\* ----------------------------------------------------------------- C20
\* The user answered the prompt with yes, in any letter case.
AnsweredYes == typed # <<>> /\ ToLower(TrimSpace(typed[1])) = "yes"

\* C20: fanout issues no rebase unless the user answers the confirmation
\* prompt with "yes" (letter case ignored); after any other answer, or none, the
\* invocation ends with no mutation at all.
C20_NoRebaseUnlessYes ==
    command = "fanout" =>
        /\ CallsOf(MutatingCmds) # {} => AnsweredYes
        /\ pc \in {"exec", "abort", "handle"} => AnsweredYes
        /\ (typed # <<>> /\ ~AnsweredYes) => pc = "done" /\ CallsOf(MutatingCmds) = {}

\* ----------------------------------------------------------------- C21
\* The root of the worktree the command was invoked from.
InvokedFrom ==
    LET i == CHOOSE j \in 1..Len(worktrees) : currentDir \in {PathOf(j), SubdirOf(j)}
    IN  worktrees[i].Path

\* C21: fanout never rebases the worktree it was invoked from (also when it is
\* run from a directory below the worktree's root) nor a worktree whose branch
\* is the source branch, and no worktree receives two rebase commands.
C21_NeverSelfNorSourceBranchOnce ==
    command = "fanout" =>
        /\ \A i \in CallsOf({"rebase"}) :
              /\ log[i].dir # currentDir
              /\ log[i].dir # InvokedFrom
              /\ BranchAt(log[i].dir) # currentBranch
        /\ \A i, j \in CallsOf({"rebase"}) : log[i].dir = log[j].dir => i = j
        /\ \A k \in 1..Len(targetWorktrees) :
              /\ targetWorktrees[k].Path # InvokedFrom
              /\ targetWorktrees[k].Branch # currentBranch

\* Fanout was run on main from a directory below the root of its worktree, with
\* a second worktree on main too: the third worktree alone was rebased.
C21_Witness ==
    /\ command = "fanout"
    /\ pc = "done"
    /\ currentDir = SubdirOf(1)
    /\ Len(worktrees) = 3
    /\ worktrees[2].Branch = "main"
    /\ currentBranch = "main"
    /\ Len(Rebases) = 1
    /\ Rebases[1].dir = PathOf(3)

\* ----------------------------------------------------------------- C22
\* Every worktree of the (non-empty) safe set was rebased, with success.
AllSafeRebased ==
    /\ Len(safeWorktrees) > 0
    /\ Len(Rebases) = Len(safeWorktrees)
    /\ \A k \in 1..Len(Rebases) : Rebases[k].ok /\ Rebases[k].dir = safeWorktrees[k].Path

\* Fanout printed its summary.
CompletionReported == LinesOf({"complete"}) # {}

\* C22: fanout prints "Fanout Complete" exactly when every worktree of the safe
\* set was rebased successfully, the count it prints is then the size of the
\* safe set, and after a conflict or another failure it never prints it.
C22_CompleteIffAllRebased ==
    command = "fanout" =>
        /\ CompletionReported =>
              /\ AllSafeRebased
              /\ pc = "done"
              /\ Cardinality(LinesOf({"complete"})) = 1
              /\ \A l \in LinesOf({"complete"}) :
                    /\ report[l].n = Len(safeWorktrees)
                    /\ l = Len(report)
              /\ Cardinality(LinesOf({"success"})) = Len(safeWorktrees)
        /\ (pc = "done" /\ AllSafeRebased) => CompletionReported
        /\ (\E k \in 1..Len(Rebases) : ~Rebases[k].ok) => ~CompletionReported
        /\ LinesOf({"conflict", "failed", "rebase-failed", "cancelled", "cannot-fanout"}) # {}
              => ~CompletionReported

\* The summary of a fanout over a single safe worktree.
C22_Witness ==
    /\ command = "fanout"
    /\ CompletionReported
    /\ Len(safeWorktrees) = 1
    /\ report[Len(report)].n = 1

\* ----------------------------------------------------------------- C23
\* The position in log of the last rebase call.
LastRebase == CHOOSE i \in CallsOf({"rebase"}) : \A j \in CallsOf({"rebase"}) : j <= i

\* What rebaseWorktree returns for the result of a rebase call.
ReturnOfRebaseWorktree(call) ==
    IF call.ok THEN RetSuccess
    ELSE IF IsConflictOutput(call.out) THEN RetConflict
    ELSE RetFailed(call.out)

\* What RebaseManager.RebaseCommit returns for the result of a rebase call.
ReturnOfRebaseCommit(call) ==
    IF call.ok THEN RetSuccess
    ELSE IF IsConflictOutputRM(call.out) THEN RetConflict
    ELSE RetFailed(call.out)

\* The commands a unit issued from its rebase call on.
IssuedSince(i) == [k \in 1..(Len(log) - i + 1) |-> [cmd |-> log[i + k - 1].cmd,
                                                     dir |-> log[i + k - 1].dir]]

\* The commands a unit issues for a rebase call, given its return value.
IssuedFor(call, r) ==
    <<[cmd |-> "rebase", dir |-> call.dir]>>
    \o (IF r.conflict THEN <<[cmd |-> "rebase-abort", dir |-> call.dir]>> ELSE <<>>)

\* C23: RebaseManager.RebaseCommit and rebaseWorktree are equivalent: for the
\* same exit status and output of the rebase they return the same (success,
\* conflict, error) and issue the same backend commands, the rebase and then
\* the abort on conflict only. Each unit, when it has returned, is compared
\* with what the other returns and issues for the backend result it saw.
C23_RebaseUnitsEquivalent ==
    /\ pc = "handle" =>
          /\ ret = ReturnOfRebaseCommit(log[LastRebase])
          /\ IssuedSince(LastRebase) = IssuedFor(log[LastRebase], ReturnOfRebaseCommit(log[LastRebase]))
    /\ pc = "finish" =>
          /\ ret = ReturnOfRebaseWorktree(log[LastRebase])
          /\ IssuedSince(LastRebase) = IssuedFor(log[LastRebase], ReturnOfRebaseWorktree(log[LastRebase]))

\* RebaseManager.RebaseCommit returned a conflict after its abort.
C23_Witness ==
    /\ pc = "finish"
    /\ ret = RetConflict
    /\ log[Len(log)].cmd = "rebase-abort"
    /\ ReturnOfRebaseWorktree(log[LastRebase]) = RetConflict

====
